---- MODULE Spec2Model ----
(***************************************************************************)
(* Model of the `id_newtype!` macro expansion (src/src/lib.rs): a newtype  *)
(* around Cow<'s, str> whose checked constructors admit only identifiers   *)
(* matching [A-Za-z_][A-Za-z0-9_]*, and its InvalidFmt error type.         *)
(*                                                                         *)
(* A `str` is a sequence of Unicode scalar values (what `chars()` yields). *)
(* A Cow<'s, str> is a record: Borrowed holds a reference to the caller's  *)
(* buffer `s`, Owned holds its own buffer.                                 *)
(***************************************************************************)
EXTENDS Integers, Sequences, FiniteSets, TLC

VARIABLES
    s,            \* the caller's text, the `String s` the borrowed values refer to
    sLive,        \* FALSE once the caller has dropped `s`
    vals,         \* the caller's bindings: each empty, an identifier, or an error
    proposed_id,  \* argument of a direct is_valid_id call
    verdict,      \* what that call returned ("pending" before it returns)
    inspected,    \* the character positions that call looked at
    read          \* what the latest read accessor returned, while the caller holds it

vars == <<s, sLive, vals, proposed_id, verdict, inspected, read>>

-----------------------------------------------------------------------------
(* Bounds                                                                  *)

\* Longest caller text of the constructor state machine.
MaxLen == 2
\* Longest text handed to is_valid_id directly.
MaxIdLen == 3
\* Number of bindings the caller holds at once.
NumSlots == 2

Slots == 1..NumSlots

\* 'a', '7', '_', '-', U+00E9: a letter, a digit, the underscore, an ASCII
\* character outside the grammar, a non-ASCII letter.
Alphabet == {97, 55, 95, 45, 233}

\* The edges of the three accepted ranges and their neighbours, a space, a
\* hyphen, DEL and two non-ASCII characters:
\* ' ' '-' '/' '0' '9' ':' '@' 'A' 'Z' '[' '_' '`' 'a' 'z' '{' DEL U+0080 U+00E9
IdAlphabet ==
    {32, 45, 47, 48, 57, 58, 64, 65, 90, 91, 95, 96, 97, 122, 123, 127, 128, 233}

SeqsUpTo(A, n) == UNION {[1..k -> A] : k \in 0..n}

Texts == SeqsUpTo(Alphabet, MaxLen)
IdTexts == SeqsUpTo(IdAlphabet, MaxIdLen)

-----------------------------------------------------------------------------
(* is_valid_id                                                             *)

\* '_'
Underscore == 95

\* char::is_ascii_alphabetic: 'A'..='Z' | 'a'..='z'
is_ascii_alphabetic(c) == (c >= 65 /\ c <= 90) \/ (c >= 97 /\ c <= 122)

\* char::is_ascii_digit: '0'..='9'
is_ascii_digit(c) == c >= 48 /\ c <= 57

\* The closure given to `first_char.map(..)`.
FirstCharPred(c) == is_ascii_alphabetic(c) \/ c = Underscore

\* The closure given to `chars.all(..)`.
RemainderPred_NoDigit(c) == is_ascii_alphabetic(c) \/ c = Underscore
RemainderPred(c) == is_ascii_alphabetic(c) \/ c = Underscore \/ is_ascii_digit(c)

\* `chars.all(pred)` on the iterator standing before position i of text: the
\* position of the first character failing RemainderPred, or Len(text) + 1
\* when the iterator is exhausted without a failure.
RECURSIVE AllStop(_, _)
AllStop(text, i) ==
    IF i > Len(text) THEN i
    ELSE IF ~RemainderPred(text[i]) THEN i
    ELSE AllStop(text, i + 1)

\* The three lets of is_valid_id and the characters the call looked at.
IsValidIdRun_ScanAll(text) ==
    [first_char_valid |-> Len(text) > 0 /\ FirstCharPred(text[1]),
     remainder_chars_valid |-> \A i \in 2..Len(text) : RemainderPred(text[i]),
     inspected |-> 1..Len(text)]
IsValidIdRun(text) ==
    LET has_first == Len(text) > 0                    \* chars.next() is Some
        first_char_valid ==
            IF has_first THEN FirstCharPred(text[1]) ELSE FALSE
        stop == AllStop(text, 2)
        remainder_chars_valid == stop > Len(text)
    IN  [first_char_valid |-> first_char_valid,
         remainder_chars_valid |-> remainder_chars_valid,
         inspected |->
             (IF has_first THEN {1} ELSE {})
                 \cup {i \in 2..Len(text) : i <= stop}]

is_valid_id(text) ==
    LET run == IsValidIdRun(text)
    IN  run.first_char_valid /\ run.remainder_chars_valid

-----------------------------------------------------------------------------
(* Cow<'s, str>, the identifier newtype and the error type                 *)

\* The one buffer a borrowed value can refer to: the caller's `s`.
SRef == "s"
NoRef == "-"
\* What a read through a reference to a dropped buffer would find.
Freed == <<-1>>

Borrowed(r) == [tag |-> "Borrowed", ref |-> r, buf |-> <<>>]
Owned(b) == [tag |-> "Owned", ref |-> NoRef, buf |-> b]

\* &*r for a `&'s str`.
DerefStr(r) == IF r = SRef /\ sLive THEN s ELSE Freed

\* String::from(&str): a fresh buffer holding the characters of the slice.
StringFrom(text) == [i \in 1..Len(text) |-> text[i]]

\* <Cow<str> as Deref>::deref, which `&self.0` coerces through.
CowDeref(cow) == IF cow.tag = "Borrowed" THEN DerefStr(cow.ref) ELSE cow.buf

\* Cow::into_owned: Borrowed(b) => b.to_owned(), Owned(o) => o.
into_owned(cow) ==
    IF cow.tag = "Borrowed" THEN StringFrom(DerefStr(cow.ref)) ELSE cow.buf

\* <Cow<str> as Clone>::clone: Borrowed(b) => Borrowed(b), Owned(o) => a copy.
CowClone(cow) ==
    IF cow.tag = "Borrowed" THEN Borrowed(cow.ref) ELSE Owned(StringFrom(cow.buf))

\* Result<$ty_name, $ty_err_name>: `cow` is the identifier's field 0 when
\* kind = "ok" and the error's field `value` when kind = "err".
Ok(cow) == [kind |-> "ok", cow |-> cow]
Err(e) == [kind |-> "err", cow |-> e.value]

\* $ty_err_name::new
ErrNew(value) == [value |-> value]
\* $ty_err_name::value
ErrValue(e) == e.value

\* $ty_name::as_str
as_str(id) == CowDeref(id)

\* $ty_name::new_unchecked
new_unchecked_Copying(r) == Owned(StringFrom(DerefStr(r)))
new_unchecked(r) == Borrowed(r)

\* <$ty_name as TryFrom<String>>::try_from
try_from_string_Trimmed(text) ==
    IF is_valid_id(text) THEN Ok(Owned(text))
    ELSE Err(ErrNew(Owned(SubSeq(text, 1, Len(text) - 1))))
try_from_string(text) ==
    IF is_valid_id(text) THEN Ok(Owned(text))
    ELSE Err(ErrNew(Owned(text)))

\* <$ty_name as TryFrom<&'s str>>::try_from
try_from_str_Unvalidated(r) == Ok(Borrowed(r))
try_from_str_Inverted(r) ==
    IF ~is_valid_id(DerefStr(r)) THEN Ok(Borrowed(r))
    ELSE Err(ErrNew(Borrowed(r)))
try_from_str(r) ==
    IF is_valid_id(DerefStr(r)) THEN Ok(Borrowed(r))
    ELSE Err(ErrNew(Borrowed(r)))

\* <$ty_name as FromStr>::from_str
from_str_Borrowing(r) ==
    IF is_valid_id(DerefStr(r)) THEN Ok(Borrowed(r))
    ELSE Err(ErrNew(Borrowed(r)))
from_str(r) ==
    IF is_valid_id(DerefStr(r)) THEN Ok(Owned(StringFrom(DerefStr(r))))
    ELSE Err(ErrNew(Owned(StringFrom(DerefStr(r)))))

\* $ty_name::new
new_AlwaysErr(r) == Err(ErrNew(Borrowed(r)))
new(r) == try_from_str(r)

\* $ty_name::into_static
into_static_KeepBorrow(id) == id
into_static_Recopy(id) ==
    LET text == CowDeref(id) IN Owned(SubSeq(text, 1, Len(text) - 1))
into_static(id) == Owned(into_owned(id))

\* $ty_name::into_inner: moves field 0 out.
into_inner(id) == id

\* <$ty_name as AsRef<str>>::as_ref
as_ref(id) == CowDeref(id)

\* <$ty_name as Borrow<str>>::borrow
borrow(id) == CowDeref(id)

\* <&$ty_name as Borrow<str>>::borrow: `self.0` through the reference.
borrow_ref(id) == CowDeref(id)

\* <$ty_name as Deref>::deref: a reference to field 0, the Cow.
deref(id) == id

\* <$ty_name as Display>::fmt: write!(f, "{}", self.0) appends the Cow's text to
\* what the formatter holds.
fmt_Debug(id, f) == f \o <<34>> \o CowDeref(id) \o <<34>>
fmt(id, f) == f \o CowDeref(id)

\* #[derive(PartialEq)] on $ty_name(Cow): Cow == Cow compares the two `str`s.
IdEq(a, b) == CowDeref(a) = CowDeref(b)

\* str::hash into a 16-bit multiplicative hasher: every character, then the
\* 0xff terminator.
RECURSIVE StrHashFrom(_, _, _)
StrHashFrom(text, i, h) ==
    IF i > Len(text) THEN (h * 31 + 255) % 65536
    ELSE StrHashFrom(text, i + 1, (h * 31 + text[i]) % 65536)

\* #[derive(Hash)] on $ty_name(Cow): Cow::hash hashes the `str` it derefs to.
IdHash_WithDiscriminant(id) ==
    (StrHashFrom(CowDeref(id), 1, 0) + (IF id.tag = "Owned" THEN 1 ELSE 0)) % 65536
IdHash(id) == StrHashFrom(CowDeref(id), 1, 0)

-----------------------------------------------------------------------------
(* The caller: bindings holding what the public operations returned        *)

\* A binding records, beside the value, how the caller obtained it: the
\* operation that returned it, the text that operation was given, and for
\* into_static the operation and the storage mode of the identifier it
\* consumed. A clone carries the record of the value it was cloned from.
NoCow == [tag |-> "-", ref |-> NoRef, buf |-> <<>>]
Empty ==
    [kind |-> "none", cow |-> NoCow, op |-> "-", arg |-> <<>>,
     pre |-> "-", preop |-> "-"]
Bind(res, op, arg, pre, preop) ==
    [kind |-> res.kind, cow |-> res.cow, op |-> op, arg |-> arg,
     pre |-> pre, preop |-> preop]

\* What a read accessor handed back: the accessor, the binding it was called
\* on and that binding's record before the call, the text of what it returned,
\* and the storage mode where it returned a Cow.
NoRead == [acc |-> "-", slot |-> 0, of |-> Empty, out |-> <<>>, mode |-> "-"]

Fallible == {"new", "try_from_string", "try_from_str", "from_str"}

\* let v = MyId::new(&s);
CallNew(i) ==
    /\ sLive
    /\ vals' = [vals EXCEPT ![i] = Bind(new(SRef), "new", s, "-", "-")]
    /\ UNCHANGED <<s, sLive, proposed_id, verdict, inspected, read>>

\* let v = MyId::new_unchecked(&s);
CallNewUnchecked(i) ==
    /\ sLive
    /\ vals' = [vals EXCEPT
            ![i] = Bind(Ok(new_unchecked(SRef)), "new_unchecked", s, "-", "-")]
    /\ UNCHANGED <<s, sLive, proposed_id, verdict, inspected, read>>

\* let v = MyId::try_from(s.clone());
CallTryFromString(i) ==
    /\ sLive
    /\ vals' = [vals EXCEPT
            ![i] = Bind(try_from_string(StringFrom(s)), "try_from_string", s, "-", "-")]
    /\ UNCHANGED <<s, sLive, proposed_id, verdict, inspected, read>>

\* let v = MyId::try_from(s.as_str());
CallTryFromStr(i) ==
    /\ sLive
    /\ vals' = [vals EXCEPT ![i] = Bind(try_from_str(SRef), "try_from_str", s, "-", "-")]
    /\ UNCHANGED <<s, sLive, proposed_id, verdict, inspected, read>>

\* let v = MyId::from_str(&s);
CallFromStr(i) ==
    /\ sLive
    /\ vals' = [vals EXCEPT ![i] = Bind(from_str(SRef), "from_str", s, "-", "-")]
    /\ UNCHANGED <<s, sLive, proposed_id, verdict, inspected, read>>

\* let v = MyIdInvalidFmt::new(Cow::Borrowed(&s)); or ..(Cow::Owned(s.clone()))
CallErrNew(i) ==
    /\ sLive
    /\ \E value \in {Borrowed(SRef), Owned(StringFrom(s))} :
        vals' = [vals EXCEPT ![i] = Bind(Err(ErrNew(value)), "err_new", s, "-", "-")]
    /\ UNCHANGED <<s, sLive, proposed_id, verdict, inspected, read>>

\* let v = v.into_static();
CallIntoStatic(i) ==
    /\ vals[i].kind = "ok"
    /\ vals' = [vals EXCEPT
            ![i] = Bind(Ok(into_static(vals[i].cow)), "into_static",
                        as_str(vals[i].cow), vals[i].cow.tag, vals[i].op)]
    /\ UNCHANGED <<s, sLive, proposed_id, verdict, inspected, read>>

\* let w = v.clone();   (#[derive(Clone)] on the identifier and on the error)
CallClone(i, j) ==
    /\ i # j
    /\ vals[i].kind # "none"
    /\ vals' = [vals EXCEPT
            ![j] = [vals[i] EXCEPT !.cow = CowClone(vals[i].cow)]]
    /\ UNCHANGED <<s, sLive, proposed_id, verdict, inspected, read>>

\* drop(v);
DropValue(i) ==
    /\ vals[i].kind # "none"
    /\ vals' = [vals EXCEPT ![i] = Empty]
    /\ UNCHANGED <<s, sLive, proposed_id, verdict, inspected, read>>

\* drop(s); the borrow checker admits it only when nothing borrows from `s`.
DropSource ==
    /\ sLive
    /\ \A i \in Slots : vals[i].cow.tag # "Borrowed"
    /\ sLive' = FALSE
    /\ UNCHANGED <<s, vals, proposed_id, verdict, inspected, read>>

Init ==
    /\ s \in Texts
    /\ sLive = TRUE
    /\ vals = [i \in Slots |-> Empty]
    /\ proposed_id = <<>>
    /\ verdict = "-"
    /\ inspected = {}
    /\ read = NoRead

Checked ==
    \/ \E i \in Slots : CallNew(i)
    \/ \E i \in Slots : CallTryFromString(i)
    \/ \E i \in Slots : CallTryFromStr(i)
    \/ \E i \in Slots : CallFromStr(i)
    \/ \E i \in Slots : CallErrNew(i)
    \/ \E i \in Slots : CallIntoStatic(i)
    \/ \E i, j \in Slots : CallClone(i, j)
    \/ \E i \in Slots : DropValue(i)
    \/ DropSource

Next ==
    \/ Checked
    \/ \E i \in Slots : CallNewUnchecked(i)

\* Every public operation of the identifier and its error.
Spec == Init /\ [][Next]_vars

\* The callers that never use new_unchecked.
SpecChecked == Init /\ [][Checked]_vars

-----------------------------------------------------------------------------
(* The read accessors                                                      *)

\* A method taking `&self` leaves the identifier where it is; into_inner takes
\* `self` and leaves the binding moved-out.
Reading(i, acc, text, mode, self) ==
    /\ vals[i].kind = "ok"
    /\ read' = [acc |-> acc, slot |-> i, of |-> vals[i], out |-> text, mode |-> mode]
    /\ vals' = [vals EXCEPT
            ![i] = IF self = NoCow THEN Empty ELSE [@ EXCEPT !.cow = self]]
    /\ UNCHANGED <<s, sLive, proposed_id, verdict, inspected>>

\* let t = v.as_str();
CallAsStr(i) ==
    Reading(i, "as_str", as_str(vals[i].cow), "-", vals[i].cow)

\* let t: &str = v.as_ref();
CallAsRef(i) ==
    Reading(i, "as_ref", as_ref(vals[i].cow), "-", vals[i].cow)

\* let t = Borrow::<str>::borrow(&v);
CallBorrow(i) ==
    Reading(i, "borrow", borrow(vals[i].cow), "-", vals[i].cow)

\* let t = Borrow::<str>::borrow(&&v);
CallBorrowRef(i) ==
    Reading(i, "borrow_ref", borrow_ref(vals[i].cow), "-", vals[i].cow)

\* let c: &Cow<'_, str> = &*v;   read as c.as_ref()
CallDeref(i) ==
    LET c == deref(vals[i].cow)
    IN  Reading(i, "deref", CowDeref(c), c.tag, vals[i].cow)

\* let t = format!("{}", v);
CallDisplay(i) ==
    Reading(i, "fmt", fmt(vals[i].cow, <<>>), "-", vals[i].cow)

\* let c = v.into_inner();   a move, so nothing may still borrow from v
CallIntoInner(i) ==
    /\ read = NoRead
    /\ LET c == into_inner(vals[i].cow)
       IN  Reading(i, "into_inner", CowDeref(c), c.tag, NoCow)

\* The caller lets go of what the accessor returned.
ReleaseRead ==
    /\ read # NoRead
    /\ read' = NoRead
    /\ UNCHANGED <<s, sLive, vals, proposed_id, verdict, inspected>>

\* Binding i is the only one in use.
Alone(i) == \A j \in Slots \ {i} : vals[j] = Empty

\* A caller holding one value at a time: it constructs, converts or drops it
\* while it holds nothing an accessor returned, and reads it.
NextRead ==
    \/ \E i \in Slots : read = NoRead /\ Alone(i) /\ CallNew(i)
    \/ \E i \in Slots : read = NoRead /\ Alone(i) /\ CallNewUnchecked(i)
    \/ \E i \in Slots : read = NoRead /\ Alone(i) /\ CallTryFromString(i)
    \/ \E i \in Slots : read = NoRead /\ Alone(i) /\ CallTryFromStr(i)
    \/ \E i \in Slots : read = NoRead /\ Alone(i) /\ CallFromStr(i)
    \/ \E i \in Slots : read = NoRead /\ CallIntoStatic(i)
    \/ \E i \in Slots : read = NoRead /\ DropValue(i)
    \/ read = NoRead /\ DropSource
    \/ \E i \in Slots : CallAsStr(i)
    \/ \E i \in Slots : CallAsRef(i)
    \/ \E i \in Slots : CallBorrow(i)
    \/ \E i \in Slots : CallBorrowRef(i)
    \/ \E i \in Slots : CallDeref(i)
    \/ \E i \in Slots : CallDisplay(i)
    \/ \E i \in Slots : CallIntoInner(i)
    \/ ReleaseRead

SpecRead == Init /\ [][NextRead]_vars

-----------------------------------------------------------------------------
(* A direct call of is_valid_id                                            *)

CallIsValidId ==
    /\ verdict = "pending"
    /\ verdict' = IF is_valid_id(proposed_id) THEN "true" ELSE "false"
    /\ inspected' = IsValidIdRun(proposed_id).inspected
    /\ UNCHANGED <<s, sLive, vals, proposed_id, read>>

InitValidator ==
    /\ proposed_id \in IdTexts
    /\ verdict = "pending"
    /\ inspected = {}
    /\ s = <<>>
    /\ sLive = TRUE
    /\ vals = [i \in Slots |-> Empty]
    /\ read = NoRead

SpecValidator == InitValidator /\ [][CallIsValidId]_vars

-----------------------------------------------------------------------------
(* The grammar, as the specification words it                              *)

AsciiLetters == (65..90) \cup (97..122)
AsciiDigits == 48..57

Grammar(text) ==
    /\ Len(text) >= 1
    /\ text[1] \in AsciiLetters \cup {95}
    /\ \A k \in 2..Len(text) : text[k] \in AsciiLetters \cup AsciiDigits \cup {95}

Ids == {i \in Slots : vals[i].kind = "ok"}
Errs == {i \in Slots : vals[i].kind = "err"}

-----------------------------------------------------------------------------
(* Claims                                                                  *)

\* C1: is_valid_id(text) returns true exactly when text is non-empty, starts
\* with an ASCII letter or underscore, and continues with ASCII letters, ASCII
\* digits or underscores only.
C1_IsValidIdIsTheGrammar ==
    verdict # "pending" => (verdict = "true" <=> Grammar(proposed_id))

\* A lone underscore was accepted.
C1_Witness == proposed_id = <<95>> /\ verdict = "true"

\* C2: without new_unchecked, every identifier the caller holds, whichever
\* constructor, clone or into_static returned it, has a text in the grammar.
C2_CheckedIdsAreValid ==
    \A i \in Ids : Grammar(as_str(vals[i].cow))

\* The caller holds a borrowed identifier and one that went through
\* into_static.
C2_Witness ==
    \E i, j \in Ids :
        /\ vals[i].cow.tag = "Borrowed"
        /\ vals[j].op = "into_static"

\* C3: a fallible constructor given a text that is_valid_id accepts returns Ok,
\* and as_str of the identifier is that text.
C3_RoundTrip ==
    \A i \in Slots :
        (vals[i].op \in Fallible /\ is_valid_id(vals[i].arg))
            => (vals[i].kind = "ok" /\ as_str(vals[i].cow) = vals[i].arg)

\* from_str returned an identifier for a two-character text.
C3_Witness ==
    \E i \in Ids : vals[i].op = "from_str" /\ Len(vals[i].arg) = MaxLen

\* C4: a fallible constructor given a text that is_valid_id rejects returns
\* Err, value() of the error is that text unchanged, and a constructor returns
\* Err for no other reason.
C4_ErrorFidelity ==
    \A i \in Slots :
        vals[i].op \in Fallible =>
            /\ ~is_valid_id(vals[i].arg) =>
                   (vals[i].kind = "err" /\ CowDeref(vals[i].cow) = vals[i].arg)
            /\ vals[i].kind = "err" => ~is_valid_id(vals[i].arg)
            /\ vals[i].kind \in {"ok", "err"}

\* try_from(String) rejected a two-character text.
C4_Witness ==
    \E i \in Errs :
        vals[i].op = "try_from_string" /\ Len(vals[i].arg) = MaxLen

\* C5: identifiers that try_from(String), try_from(&str) and from_str return
\* for the same text are equal and hash alike; two identifiers with the same
\* text are equal and hash alike whatever their storage modes.
C5_ModeIndependence ==
    \A i, j \in Ids :
        /\ ( /\ vals[i].op \in {"try_from_string", "try_from_str", "from_str"}
             /\ vals[j].op \in {"try_from_string", "try_from_str", "from_str"}
             /\ vals[i].arg = vals[j].arg )
               => (IdEq(vals[i].cow, vals[j].cow)
                      /\ IdHash(vals[i].cow) = IdHash(vals[j].cow))
        /\ as_str(vals[i].cow) = as_str(vals[j].cow)
               => (IdEq(vals[i].cow, vals[j].cow)
                      /\ IdHash(vals[i].cow) = IdHash(vals[j].cow))

\* The caller holds an owned identifier from try_from(String) and a borrowed
\* one from try_from(&str).
C5_Witness ==
    \E i, j \in Ids :
        /\ vals[i].op = "try_from_string" /\ vals[i].cow.tag = "Owned"
        /\ vals[j].op = "try_from_str" /\ vals[j].cow.tag = "Borrowed"

\* C6: try_from(String) returns an owned identifier or an error owning the
\* text; try_from(&str) and new return a borrowed identifier or an error
\* borrowing the caller's text; from_str returns an owned identifier or an
\* owned error holding a copy of its input.
C6_ConstructorFixesMode ==
    \A i \in Slots :
        /\ vals[i].op \in {"try_from_string", "from_str"} =>
               (vals[i].cow.tag = "Owned" /\ vals[i].cow.buf = vals[i].arg)
        /\ vals[i].op \in {"try_from_str", "new"} =>
               (vals[i].cow.tag = "Borrowed" /\ vals[i].cow.ref = SRef)

\* from_str and new both failed on the caller's text.
C6_Witness ==
    \E i, j \in Errs : vals[i].op = "from_str" /\ vals[j].op = "new"

\* C7: into_static returns an owned identifier with the text of the identifier
\* it consumed, so the text is still there once the caller's buffer is dropped.
C7_IntoStaticOwns ==
    \A i \in Slots :
        vals[i].op = "into_static" =>
            /\ vals[i].kind = "ok"
            /\ vals[i].cow.tag = "Owned"
            /\ as_str(vals[i].cow) = vals[i].arg
            /\ vals[i].arg = s

\* into_static was applied to a borrowed identifier and the caller's buffer
\* has been dropped since.
C7_Witness ==
    \E i \in Ids :
        vals[i].op = "into_static" /\ vals[i].pre = "Borrowed" /\ ~sLive

\* C8: into_static applied twice gives what it gives applied once, in text and
\* in storage mode.
C8_IntoStaticIdempotent ==
    \A i \in Ids :
        into_static(into_static(vals[i].cow)) = into_static(vals[i].cow)

\* into_static was applied to the result of into_static, for a text of two
\* characters.
C8_Witness ==
    \E i \in Ids :
        /\ vals[i].op = "into_static"
        /\ vals[i].preop = "into_static"
        /\ Len(as_str(vals[i].cow)) = MaxLen

C10_NewUnchecked ==
    \A i \in Slots :
        /\ vals[i].op = "new_unchecked" =>
               /\ vals[i].kind = "ok"
               /\ vals[i].cow.tag = "Borrowed"
               /\ as_str(vals[i].cow) = vals[i].arg
        /\ \A j \in Slots :
               ( /\ vals[i].op = "new"
                 /\ vals[j].op = "new_unchecked"
                 /\ is_valid_id(vals[i].arg) )
                   => (vals[i].kind = "ok" /\ IdEq(vals[i].cow, vals[j].cow))

\* new_unchecked wrapped a text outside the grammar.
C10_Witness ==
    \E i \in Ids : vals[i].op = "new_unchecked" /\ ~Grammar(vals[i].arg)

NonConsuming == {"as_str", "as_ref", "borrow", "borrow_ref", "deref", "fmt"}

\* C11: as_str, as_ref, both borrows, deref, Display and into_inner each hand
\* back exactly the text the identifier was made from (deref and into_inner as
\* a Cow in the identifier's storage mode), and after every one but into_inner
\* the identifier has the text and the storage mode it had before.
C11_AccessorsAgree ==
    read # NoRead =>
        /\ read.out = read.of.arg
        /\ read.acc \in {"deref", "into_inner"} => read.mode = read.of.cow.tag
        /\ read.acc \in NonConsuming =>
               /\ vals[read.slot].kind = "ok"
               /\ as_str(vals[read.slot].cow) = read.of.arg
               /\ vals[read.slot].cow.tag = read.of.cow.tag

\* Display rendered a borrowed identifier that new_unchecked made from a text
\* outside the grammar.
C11_Witness ==
    /\ read.acc = "fmt"
    /\ read.of.cow.tag = "Borrowed"
    /\ Len(read.out) = MaxLen
    /\ ~Grammar(read.out)

\* The character at position k of text is outside what the grammar allows
\* there.
FailsGrammarAt(text, k) ==
    IF k = 1 THEN text[k] \notin AsciiLetters \cup {95}
    ELSE text[k] \notin AsciiLetters \cup AsciiDigits \cup {95}

\* C12 as worded: once is_valid_id has inspected a character that fails the
\* grammar, the first character included, it inspects no later character.
C12_StopsAtFirstFailure ==
    verdict # "pending" =>
        \A k \in inspected :
            FailsGrammarAt(proposed_id, k) => \A j \in inspected : j <= k

\* C12 amended: is_valid_id inspects the first character, and then the others
\* in order up to and including the first of them that fails the grammar: a
\* failing character after the first ends the inspection, a failing first
\* character does not.
C12_StopsAtFirstRemainderFailure ==
    verdict # "pending" =>
        inspected =
            {k \in 1..Len(proposed_id) :
                \A j \in 2..(k - 1) : ~FailsGrammarAt(proposed_id, j)}

\* On "0-a" the call looked at '0', which fails, went on to '-', which fails,
\* and never looked at 'a'.
C12_Witness ==
    /\ proposed_id = <<48, 45, 97>>
    /\ verdict = "false"
    /\ inspected = {1, 2}

====
